---- MODULE Spec2Model ----
(***************************************************************************)
(* Model of the electricity-usage viewer (src/main.py): the CSV parser     *)
(* parse_hourly, the aggregators hourly_to_daily and daily_to_weekly, and  *)
(* the four views of the script.                                           *)
(*                                                                         *)
(* Text is a sequence of one-character strings.  Energy is kept in tenths  *)
(* of a kWh (the decimal comma is parsed, one fractional digit), so sums   *)
(* are exact.  A timestamp is [date, hour, minute] with date the           *)
(* proleptic Gregorian day number.                                         *)
(***************************************************************************)
EXTENDS Integers, Sequences, FiniteSets, TLC

VARIABLES MODE, file, pc, error, hourly, daily, weekly, start_day,
          hourly_dict, date_choice, comparison_df, warnings, pending, shown

vars == <<MODE, file, pc, error, hourly, daily, weekly, start_day,
          hourly_dict, date_choice, comparison_df, warnings, pending, shown>>

\* ------------------------------------------------------------------
\* Bounds of the model
\* ------------------------------------------------------------------
MaxRows == 3

MaxDays == 36

PatternLen == 8

MaxSourceRows == 2

\* ------------------------------------------------------------------
\* Text helpers
\* ------------------------------------------------------------------
DigitSeq == <<"0", "1", "2", "3", "4", "5", "6", "7", "8", "9">>

Digits == {DigitSeq[i] : i \in 1..10}

DigitVal(c) == (CHOOSE i \in 1..10 : DigitSeq[i] = c) - 1

RECURSIVE Number(_)
Number(s) == IF s = <<>> THEN 0
             ELSE 10 * Number(SubSeq(s, 1, Len(s) - 1)) + DigitVal(s[Len(s)])

NoError == "none"

\* a missing value of a table, and a present one
NaN == <<>>

Cell(v) == <<v>>

\* ------------------------------------------------------------------
\* parse_hourly
\* ------------------------------------------------------------------
\* skiprows=4 of pd.read_csv
SKIPROWS == 4

\* r"\d{2}\.\d{2}\.\d{4} \d{2}:\d{2}", "d" standing for \d
PATTERN == <<"d", "d", ".", "d", "d", ".", "d", "d", "d", "d", " ",
             "d", "d", ":", "d", "d">>

\* Series.str.match anchors the pattern at the start of the string only
\* (re.match): characters after the 16th are not looked at.
StrMatch(s) ==
    /\ Len(s) >= Len(PATTERN)
    /\ \A i \in 1..Len(PATTERN) :
          IF PATTERN[i] = "d" THEN s[i] \in Digits ELSE s[i] = PATTERN[i]

IsLeap(y) == (y % 4 = 0 /\ y % 100 # 0) \/ y % 400 = 0

DaysInMonth(y, m) ==
    IF m = 2 THEN (IF IsLeap(y) THEN 29 ELSE 28)
    ELSE IF m \in {4, 6, 9, 11} THEN 30 ELSE 31

RECURSIVE DaysBeforeMonth(_, _)
DaysBeforeMonth(y, m) ==
    IF m <= 1 THEN 0 ELSE DaysBeforeMonth(y, m - 1) + DaysInMonth(y, m - 1)

DaysBeforeYear(y) ==
    (y - 1) * 365 + ((y - 1) \div 4) - ((y - 1) \div 100) + ((y - 1) \div 400)

Ordinal(y, m, d) == DaysBeforeYear(y) + DaysBeforeMonth(y, m) + d

\* The fields of a string that passed StrMatch
DayOf(s) == Number(SubSeq(s, 1, 2))

MonthOf(s) == Number(SubSeq(s, 4, 5))

YearOf(s) == Number(SubSeq(s, 7, 10))

HourOf(s) == Number(SubSeq(s, 12, 13))

MinuteOf(s) == Number(SubSeq(s, 15, 16))

\* pd.to_datetime(..., format="%d.%m.%Y %H:%M") raises ValueError on
\* unconverted trailing data and on a field out of range.
CanConvert(s) ==
    /\ Len(s) = Len(PATTERN)
    /\ MonthOf(s) \in 1..12
    /\ DayOf(s) \in 1..DaysInMonth(YearOf(s), MonthOf(s))
    /\ HourOf(s) \in 0..23
    /\ MinuteOf(s) \in 0..59

ToDatetime(s) ==
    [date |-> Ordinal(YearOf(s), MonthOf(s), DayOf(s)),
     hour |-> HourOf(s), minute |-> MinuteOf(s)]

\* decimal=",": digits, a comma, one fractional digit; the value in tenths
ParseDecimal(s) ==
    LET c == CHOOSE i \in 1..Len(s) : s[i] = ","
    IN  10 * Number(SubSeq(s, 1, c - 1)) + Number(SubSeq(s, c + 1, Len(s)))

\* the rows read_csv keeps
ReadCsv(f) == SubSeq(f, SKIPROWS + 1, Len(f))

\* df = df[mask]
Masked(rows) == SelectSeq(rows, LAMBDA r : StrMatch(r.timestamp))

Converted(rows) ==
    [i \in 1..Len(rows) |->
        [timestamp |-> ToDatetime(rows[i].timestamp),
         kwh |-> ParseDecimal(rows[i].kwh)]]

Key(t) == (t.date * 24 + t.hour) * 60 + t.minute

RemoveAt(s, i) == SubSeq(s, 1, i - 1) \o SubSeq(s, i + 1, Len(s))

\* sort_values("timestamp"): every ascending arrangement of the rows (the
\* default sort is not stable, so rows with equal timestamps may come out in
\* any order).
SortValues_Unsorted(rows) == {rows}

RECURSIVE SortValues(_)
SortValues(rows) ==
    IF rows = <<>> THEN {<<>>}
    ELSE LET least == {i \in 1..Len(rows) :
                         \A j \in 1..Len(rows) :
                            Key(rows[i].timestamp) <= Key(rows[j].timestamp)}
         IN  UNION {{<<rows[i]>> \o t : t \in SortValues(RemoveAt(rows, i))}
                       : i \in least}

ParseRaises(f) ==
    \E i \in 1..Len(Masked(ReadCsv(f))) :
        ~CanConvert(Masked(ReadCsv(f))[i].timestamp)


Ok(v) == [raised |-> NoError, value |-> v]

Raise(e) == [raised |-> e, value |-> <<>>]

\* the outcomes of parse_hourly(csv_file)
parse_hourly(f) ==
    IF ParseRaises(f)
    THEN {Raise("ValueError: unconverted data remains")}
    ELSE {Ok(h) : h \in SortValues(Converted(Masked(ReadCsv(f))))}

\* ------------------------------------------------------------------
\* hourly_to_daily
\* ------------------------------------------------------------------
SetMin(S) == CHOOSE x \in S : \A y \in S : x <= y

SetMax(S) == CHOOSE x \in S : \A y \in S : x >= y

RECURSIVE Ascending(_)
Ascending(S) ==
    IF S = {} THEN <<>> ELSE <<SetMin(S)>> \o Ascending(S \ {SetMin(S)})

RECURSIVE SumKwh(_)
SumKwh(rows) ==
    IF rows = <<>> THEN 0 ELSE rows[1].kwh + SumKwh(Tail(rows))

DatesOf(h) == {h[i].timestamp.date : i \in 1..Len(h)}

OnDate(h, d) == SelectSeq(h, LAMBDA r : r.timestamp.date = d)

RECURSIVE Distinct(_)
Distinct(rows) ==
    IF rows = <<>> THEN <<>>
    ELSE <<rows[1]>> \o Distinct(SelectSeq(Tail(rows), LAMBDA r : r # rows[1]))

hourly_to_daily_Dedup(h) ==
    LET keys == Ascending(DatesOf(h))
    IN  [i \in 1..Len(keys) |->
            [date |-> keys[i],
             daily_kwh |-> SumKwh(Distinct(OnDate(h, keys[i])))]]

\* groupby("date", as_index=False)["kwh"].sum(): the groups in ascending
\* key order, one row per key
hourly_to_daily(h) ==
    LET keys == Ascending(DatesOf(h))
    IN  [i \in 1..Len(keys) |->
            [date |-> keys[i], daily_kwh |-> SumKwh(OnDate(h, keys[i]))]]

\* ------------------------------------------------------------------
\* daily_to_weekly
\* ------------------------------------------------------------------
NaNRow == [c0 |-> NaN, date |-> NaN, weekly_kwh_avg |-> NaN,
           min |-> NaN, max |-> NaN]

\* pd.DataFrame(['date', 'weekly_kwh_avg', 'min', 'max']): the list is the
\* DATA of the frame, one unnamed column (0) of four rows
NewOutputDf ==
    [columns |-> {"c0"},
     rows |-> <<[NaNRow EXCEPT !.c0 = Cell("date")],
                [NaNRow EXCEPT !.c0 = Cell("weekly_kwh_avg")],
                [NaNRow EXCEPT !.c0 = Cell("min")],
                [NaNRow EXCEPT !.c0 = Cell("max")]>>]

\* df.at[i, col] = v: sets the cell, adding the column and the row label
\* when the frame does not have them (i never exceeds the row count here)
AtSet(df, i, col, v) ==
    LET grown == IF i < Len(df.rows) THEN df.rows ELSE Append(df.rows, NaNRow)
    IN  [columns |-> df.columns \cup {col},
         rows |-> [grown EXCEPT ![i + 1][col] = Cell(v)]]

Block_Sliding(d, i) == [k \in 1..7 |-> d[i + k].daily_kwh]

\* daily_df.iloc[i * 7:(i + 1) * 7]["daily_kwh"]
Block(d, i) == [k \in 1..7 |-> d[i * 7 + k].daily_kwh]

RECURSIVE SumSeq(_)
SumSeq(s) == IF s = <<>> THEN 0 ELSE s[1] + SumSeq(Tail(s))

SeqMin(s) == SetMin({s[k] : k \in 1..Len(s)})

SeqMax(s) == SetMax({s[k] : k \in 1..Len(s)})

\* round(sum_weekly / 7, 2), the sum in tenths of a kWh and the result in
\* hundredths: the integer nearest to 10 * sum / 7 (never a tie)
RoundAvg(sum) == (20 * sum + 7) \div 14

WeekRow(df, d, i) ==
    AtSet(AtSet(AtSet(AtSet(df, i, "date", d[i * 7 + 1].date),
                      i, "weekly_kwh_avg", RoundAvg(SumSeq(Block(d, i)))),
                i, "min", SeqMin(Block(d, i))),
          i, "max", SeqMax(Block(d, i)))

RECURSIVE WeekLoop(_, _, _)
WeekLoop(df, d, i) ==
    IF i >= Len(d) \div 7 THEN df ELSE WeekLoop(WeekRow(df, d, i), d, i + 1)

daily_to_weekly(d) == WeekLoop(NewOutputDf, d, 0)


\* ------------------------------------------------------------------
\* The script: inputs
\* ------------------------------------------------------------------
Window100 == "100-day window (single file)"

Compare == "Compare one day across multiple files"

Heatmap == "Heatmap"

ErrorBands == "Error bands"

SingleFileModes == {Window100, Heatmap, ErrorBands}

Stamp(dd, mm, hh, mi) ==
    dd \o <<".">> \o mm \o <<".", "2", "0", "2", "4", " ">> \o hh \o <<":">> \o mi

\* first fields of the lines of an uploaded file
StampTexts ==
    {Stamp(<<"0", "1">>, <<"0", "1">>, <<"0", "0">>, <<"0", "0">>),
     Stamp(<<"0", "1">>, <<"0", "1">>, <<"0", "1">>, <<"0", "0">>),
     Stamp(<<"0", "2">>, <<"0", "1">>, <<"0", "0">>, <<"0", "0">>),
     Stamp(<<"0", "9">>, <<"0", "4">>, <<"0", "0">>, <<"0", "0">>)}

NotADate == <<"n", "o", "t", "-", "a", "-", "d", "a", "t", "e">>

WithSeconds ==
    Stamp(<<"0", "1">>, <<"0", "1">>, <<"0", "0">>, <<"0", "0">>) \o <<":", "3", "0">>

KwhTexts == {<<"1", ",", "5">>, <<"2", ",", "0">>}

\* every first field with one reading, and a second reading for the two
\* hours of the first day
Lines ==
    [timestamp : StampTexts \cup {NotADate, WithSeconds}, kwh : {<<"1", ",", "5">>}]
    \cup [timestamp : {t \in StampTexts : SubSeq(t, 1, 5) = <<"0", "1", ".", "0", "1">>},
          kwh : KwhTexts]

HeaderLine == [timestamp |-> <<"h">>, kwh |-> <<"h">>]

\* the four lines skiprows discards, whatever they hold
Preambles ==
    {<<HeaderLine, HeaderLine, HeaderLine, HeaderLine>>,
     <<HeaderLine, HeaderLine, HeaderLine,
       [timestamp |-> Stamp(<<"0", "2">>, <<"0", "1">>, <<"0", "0">>, <<"0", "0">>),
        kwh |-> <<"2", ",", "0">>]>>}

Files ==
    {p \o r : p \in Preambles,
              r \in UNION {[1..n -> Lines] : n \in 0..MaxRows}}

\* the default CSV (electricity/<hash>.csv) is not part of the sources: its
\* parsed content is one reading a day on consecutive days
DefaultFile == <<>>

FirstDay == Ordinal(2024, 1, 1)

DefaultHourlies ==
    {[i \in 1..n |->
        [timestamp |-> [date |-> FirstDay + i - 1, hour |-> 0, minute |-> 0],
         kwh |-> base[i % PatternLen]]] :
        n \in 0..MaxDays, base \in [0..(PatternLen - 1) -> {10, 25}]}

EmptyFrame == [columns |-> {}, rows |-> <<>>]

InitCommon ==
    /\ error = NoError
    /\ daily = <<>>
    /\ weekly = EmptyFrame
    /\ start_day = NaN
    /\ date_choice = NaN
    /\ comparison_df = [index |-> 0..23, columns |-> <<>>]
    /\ warnings = {}
    /\ pending = <<>>
    /\ shown = "nothing"

\* an uploaded file, any single-file view
Init ==
    /\ MODE \in SingleFileModes
    /\ file \in Files
    /\ pc = "upload"
    /\ hourly = <<>>
    /\ hourly_dict = <<>>
    /\ InitCommon

\* ------------------------------------------------------------------
\* The single-file views (MODE 1, 3 and 4)
\* ------------------------------------------------------------------
Fail(e) ==
    /\ pc' = "failed"
    /\ error' = e

\* hourly = parse_hourly(file)
ParseHourly ==
    /\ pc = "upload"
    /\ MODE \in SingleFileModes
    /\ \E r \in parse_hourly(file) :
          IF r.raised # NoError
          THEN Fail(r.raised) /\ UNCHANGED hourly
          ELSE /\ hourly' = r.value
               /\ pc' = "parsed"
               /\ UNCHANGED error
    /\ UNCHANGED <<MODE, file, daily, weekly, start_day, hourly_dict,
                   date_choice, comparison_df, warnings, pending, shown>>

\* daily = hourly_to_daily(hourly)
HourlyToDaily ==
    /\ pc = "parsed"
    /\ daily' = hourly_to_daily(hourly)
    /\ pc' = "daily"
    /\ UNCHANGED <<MODE, file, error, hourly, weekly, start_day, hourly_dict,
                   date_choice, comparison_df, warnings, pending, shown>>

\* weekly = daily_to_weekly(daily), MODE 4 only
DailyToWeekly ==
    /\ pc = "daily"
    /\ MODE = ErrorBands
    /\ weekly' = daily_to_weekly(daily)
    /\ pc' = "weekly"
    /\ UNCHANGED <<MODE, file, error, hourly, daily, start_day, hourly_dict,
                   date_choice, comparison_df, warnings, pending, shown>>

\* df[col].iloc[i] raises IndexError when position i (negative: from the
\* end) is out of bounds
IlocRaises_Guarded(df, i) == FALSE

IlocRaises(df, i) == IF i >= 0 THEN i >= Len(df) ELSE -i > Len(df)

\* st.success(f"Loaded ... ({daily['date'].iloc[0]} -> {daily['date'].iloc[-1]})")
Loaded ==
    /\ \/ pc = "daily" /\ MODE \in {Window100, Heatmap}
       \/ pc = "weekly" /\ MODE = ErrorBands
    /\ IF IlocRaises(daily, 0) \/ IlocRaises(daily, -1)
       THEN Fail("IndexError: single positional indexer is out-of-bounds")
       ELSE pc' = "loaded" /\ UNCHANGED error
    /\ UNCHANGED <<MODE, file, hourly, daily, weekly, start_day, hourly_dict,
                   date_choice, comparison_df, warnings, pending, shown>>

WINDOW == 100

min_day == SetMin({daily[i].date : i \in 1..Len(daily)})

\* daily["date"].max() - timedelta(days=WINDOW - 1)
max_day == SetMax({daily[i].date : i \in 1..Len(daily)}) - (WINDOW - 1)

end_day(start) == start + (WINDOW - 1)

\* st.date_input(value=min_day, min_value=min_day, max_value=max_day), the
\* window and its chart
WindowView ==
    /\ pc = "loaded"
    /\ MODE = Window100
    /\ IF min_day > max_day
       THEN /\ Fail("StreamlitAPIException: value outside min_value..max_value")
            /\ UNCHANGED <<start_day, shown>>
       ELSE /\ \E d \in min_day..max_day : start_day' = Cell(d)
            /\ shown' = "chart"
            /\ pc' = "done"
            /\ UNCHANGED error
    /\ UNCHANGED <<MODE, file, hourly, daily, weekly, hourly_dict,
                   date_choice, comparison_df, warnings, pending>>

HeatmapView ==
    /\ pc = "loaded"
    /\ MODE = Heatmap
    /\ shown' = "chart"
    /\ pc' = "done"
    /\ UNCHANGED <<MODE, file, error, hourly, daily, weekly, start_day,
                   hourly_dict, date_choice, comparison_df, warnings, pending>>

\* window_df.index = weekly["date"] raises KeyError while no week was written
ErrorBandsView ==
    /\ pc = "loaded"
    /\ MODE = ErrorBands
    /\ IF "date" \notin weekly.columns
       THEN Fail("KeyError: 'date'") /\ UNCHANGED shown
       ELSE shown' = "chart" /\ pc' = "done" /\ UNCHANGED error
    /\ UNCHANGED <<MODE, file, hourly, daily, weekly, start_day, hourly_dict,
                   date_choice, comparison_df, warnings, pending>>

Next ==
    \/ ParseHourly
    \/ HourlyToDaily
    \/ DailyToWeekly
    \/ Loaded
    \/ WindowView
    \/ HeatmapView
    \/ ErrorBandsView

Spec == Init /\ [][Next]_vars


\* ------------------------------------------------------------------
\* The error-bands view of the default file
\* ------------------------------------------------------------------
InitDefault ==
    /\ MODE = ErrorBands
    /\ file = DefaultFile
    /\ pc = "parsed"
    /\ hourly \in DefaultHourlies
    /\ hourly_dict = <<>>
    /\ InitCommon

NextDefault ==
    \/ HourlyToDaily
    \/ DailyToWeekly
    \/ Loaded
    \/ ErrorBandsView

SpecDefault == InitDefault /\ [][NextDefault]_vars

\* ------------------------------------------------------------------
\* MODE 2: same-day comparison across files
\* ------------------------------------------------------------------
Readings ==
    [timestamp : {[date |-> FirstDay, hour |-> 0, minute |-> 0],
                  [date |-> FirstDay, hour |-> 1, minute |-> 0],
                  [date |-> FirstDay + 2, hour |-> 0, minute |-> 0]},
     kwh : {0, 15}]

IsSorted(h) ==
    \A i \in 1..(Len(h) - 1) : Key(h[i].timestamp) <= Key(h[i + 1].timestamp)

\* what parse_hourly returns for a source
SourceHourlies ==
    {h \in UNION {[1..n -> Readings] : n \in 0..MaxSourceRows} : IsSorted(h)}

SourceNames == <<"a.csv", "b.csv">>

InitCompare ==
    /\ MODE = Compare
    /\ file = DefaultFile
    /\ pc = "sources"
    /\ hourly = <<>>
    /\ \E n \in 1..Len(SourceNames) :
          hourly_dict \in {[i \in 1..n |-> [name |-> SourceNames[i], df |-> f[i]]] :
                              f \in [1..n -> SourceHourlies]}
    /\ InitCommon

all_dates == UNION {DatesOf(hourly_dict[i].df) : i \in 1..Len(hourly_dict)}

\* all_dates and st.date_input(value=min(all_dates), min_value=..., max_value=...)
ChooseDate ==
    /\ pc = "sources"
    /\ IF all_dates = {}
       THEN /\ Fail("ValueError: min() arg is an empty sequence")
            /\ UNCHANGED <<date_choice, pending>>
       ELSE /\ \E d \in SetMin(all_dates)..SetMax(all_dates) : date_choice' = Cell(d)
            /\ pending' = hourly_dict
            /\ pc' = "loop"
            /\ UNCHANGED error
    /\ UNCHANGED <<MODE, file, hourly, daily, weekly, start_day, hourly_dict,
                   comparison_df, warnings, shown>>

\* df[df["timestamp"].dt.date == date_choice]
day_slice(df) == OnDate(df, date_choice[1])

\* Series.reindex raises ValueError on an index with duplicate labels
ReindexRaises(slice) ==
    \E i, j \in 1..Len(slice) : i # j /\ slice[i].timestamp.hour = slice[j].timestamp.hour

\* set_index(hour)["kwh"].reindex(hour_index, fill_value=0.0)
Reindex(slice, hour_index) ==
    [h \in hour_index |->
        IF \E i \in 1..Len(slice) : slice[i].timestamp.hour = h
        THEN slice[CHOOSE i \in 1..Len(slice) : slice[i].timestamp.hour = h].kwh
        ELSE 0]

\* if day_slice.empty: st.warning(...); continue
Warn ==
    /\ pc = "loop"
    /\ pending # <<>>
    /\ day_slice(Head(pending).df) = <<>>
    /\ warnings' = warnings \cup {Head(pending).name}
    /\ pending' = Tail(pending)
    /\ UNCHANGED <<MODE, file, pc, error, hourly, daily, weekly, start_day,
                   hourly_dict, date_choice, comparison_df, shown>>

\* comparison_df[name] = day_slice (reindexed)
AddColumn ==
    /\ pc = "loop"
    /\ pending # <<>>
    /\ day_slice(Head(pending).df) # <<>>
    /\ IF ReindexRaises(day_slice(Head(pending).df))
       THEN /\ Fail("ValueError: cannot reindex on an axis with duplicate labels")
            /\ UNCHANGED <<comparison_df, pending>>
       ELSE /\ comparison_df' =
                  [comparison_df EXCEPT !.columns =
                      Append(@, [name |-> Head(pending).name,
                                 values |-> Reindex(day_slice(Head(pending).df),
                                                    comparison_df.index)])]
            /\ pending' = Tail(pending)
            /\ UNCHANGED <<pc, error>>
    /\ UNCHANGED <<MODE, file, hourly, daily, weekly, start_day, hourly_dict,
                   date_choice, warnings, shown>>

\* DataFrame.empty: some axis has length 0
Empty_RowsOnly(df) == df.index = {}

Empty(df) == df.index = {} \/ df.columns = <<>>

\* if comparison_df.empty: st.error(...) else: chart and table
Finish ==
    /\ pc = "loop"
    /\ pending = <<>>
    /\ shown' = IF Empty(comparison_df) THEN "error" ELSE "chart"
    /\ pc' = "done"
    /\ UNCHANGED <<MODE, file, error, hourly, daily, weekly, start_day,
                   hourly_dict, date_choice, comparison_df, warnings, pending>>

NextCompare ==
    \/ ChooseDate
    \/ Warn
    \/ AddColumn
    \/ Finish

SpecCompare == InitCompare /\ [][NextCompare]_vars


\* ------------------------------------------------------------------
\* Properties
\* ------------------------------------------------------------------
ParseError == "ValueError: unconverted data remains"

IndexError == "IndexError: single positional indexer is out-of-bounds"

DateInputError == "StreamlitAPIException: value outside min_value..max_value"

ReindexError == "ValueError: cannot reindex on an axis with duplicate labels"

\* parse_hourly has returned
Parsed == pc # "upload" /\ error # ParseError

\* hourly_to_daily has returned
HasDaily == Parsed /\ pc # "parsed"

\* daily_to_weekly has returned
HasWeekly == weekly # EmptyFrame

Count(seq, x) == Cardinality({i \in 1..Len(seq) : seq[i] = x})

\* the whole first field is DD.MM.YYYY HH:MM
FullMatch(s) == StrMatch(s) /\ Len(s) = Len(PATTERN)

ExactRows(f) == SelectSeq(ReadCsv(f), LAMBDA r : FullMatch(r.timestamp))

\* C1: every row after the preamble whose first field is not exactly
\* DD.MM.YYYY HH:MM is dropped silently: parse_hourly raises nothing and
\* returns what it returns for the file without those rows.
C1_DropsSilently ==
    pc # "upload" =>
        /\ error # ParseError
        /\ hourly \in SortValues(Converted(ExactRows(file)))

\* C2: the sequence parse_hourly returns is non-decreasing in timestamp
\* whatever the order of the rows in the file, and holds every row that
\* passed the mask, equal timestamps included, as often as the file does.
C2_SortedAllKept ==
    Parsed =>
        /\ IsSorted(hourly)
        /\ Len(hourly) = Len(Masked(ReadCsv(file)))
        /\ \A i \in 1..Len(hourly) :
              Count(hourly, hourly[i]) =
                 Count(Converted(Masked(ReadCsv(file))), hourly[i])

C2_Witness ==
    /\ pc = "parsed"
    /\ \E i, j \in 1..Len(hourly) : i # j /\ hourly[i].timestamp = hourly[j].timestamp
    /\ ~IsSorted(Converted(Masked(ReadCsv(file))))

RECURSIVE SumAt(_, _)
SumAt(h, S) ==
    IF S = {} THEN 0
    ELSE LET i == CHOOSE k \in S : TRUE IN h[i].kwh + SumAt(h, S \ {i})

\* C3: hourly_to_daily returns one row per calendar date that occurs among
\* the hourly timestamps and no other row, in ascending date order, and
\* each daily_kwh is the sum of all the readings of that date, a reading
\* that occurs twice counted twice.
C3_DailySums ==
    HasDaily =>
        /\ \A i, j \in 1..Len(daily) : i < j => daily[i].date < daily[j].date
        /\ {daily[i].date : i \in 1..Len(daily)} = DatesOf(hourly)
        /\ \A i \in 1..Len(daily) :
              daily[i].daily_kwh =
                 SumAt(hourly, {k \in 1..Len(hourly) :
                                   hourly[k].timestamp.date = daily[i].date})

C3_Witness ==
    /\ pc = "daily"
    /\ Len(daily) >= 2
    /\ \E i, j \in 1..Len(hourly) : i # j /\ hourly[i] = hourly[j]

\* C4: the table daily_to_weekly returns for a daily table of n rows has
\* exactly floor(n / 7) rows.
C4_RowCount == HasWeekly => Len(weekly.rows) = Len(daily) \div 7

BlockValues(i) == {daily[i * 7 + k].daily_kwh : k \in 1..7}

BlockSum(i) == SumAt([k \in 1..7 |-> [kwh |-> daily[i * 7 + k].daily_kwh]], 1..7)

\* C5: for every complete block i, weekly row i carries the date of daily
\* row 7*i, the mean of the 7 daily totals of the block rounded to 2
\* decimals (in hundredths: the integer within 1/2 of 10 * sum / 7), and
\* the least and the greatest of those 7 totals.
C5_WeekRows ==
    HasWeekly =>
        \A i \in 0..((Len(daily) \div 7) - 1) :
            LET row == weekly.rows[i + 1]
            IN  /\ row.date = Cell(daily[i * 7 + 1].date)
                /\ Len(row.weekly_kwh_avg) = 1
                /\ 2 * (7 * row.weekly_kwh_avg[1] - 10 * BlockSum(i)) \in -7..7
                /\ Len(row.min) = 1 /\ Len(row.max) = 1
                /\ row.min[1] \in BlockValues(i)
                /\ row.max[1] \in BlockValues(i)
                /\ \A v \in BlockValues(i) : row.min[1] <= v /\ v <= row.max[1]

C5_Witness ==
    /\ HasWeekly
    /\ Len(daily) >= 14
    /\ Cardinality(BlockValues(1)) = 2
    /\ BlockSum(0) # BlockSum(1)
    /\ (10 * BlockSum(1)) % 7 # 0

HasRowsOn(df) == \E i \in 1..Len(df) : df[i].timestamp.date = date_choice[1]

ColumnsOf(name) ==
    {c \in 1..Len(comparison_df.columns) : comparison_df.columns[c].name = name}

\* a run of the comparison view that got as far as picking a date has ended
CompareEnded == pc \in {"done", "failed"} /\ date_choice # NaN

\* C6: for every source with a reading on the chosen date the reindexing
\* succeeds, also with two readings in one hour of the day, and its column
\* holds each reading at its hour and 0 at exactly the hours without one.
C6_ReindexKeepsReadings ==
    CompareEnded =>
        /\ error # ReindexError
        /\ \A s \in 1..Len(hourly_dict) :
              HasRowsOn(hourly_dict[s].df) =>
                 \E c \in ColumnsOf(hourly_dict[s].name) :
                    \A h \in 0..23 :
                       LET at == {i \in 1..Len(hourly_dict[s].df) :
                                    /\ hourly_dict[s].df[i].timestamp.date = date_choice[1]
                                    /\ hourly_dict[s].df[i].timestamp.hour = h}
                       IN  IF at = {}
                           THEN comparison_df.columns[c].values[h] = 0
                           ELSE \A i \in at :
                                   comparison_df.columns[c].values[h] =
                                      hourly_dict[s].df[i].kwh

\* C7: a source gets a warning and no column if and only if it has no row
\* on the chosen date; otherwise it gets exactly one column and no warning,
\* and the sources after a warned one are still processed.
C7_WarningIffNoRows ==
    CompareEnded =>
        \A s \in 1..Len(hourly_dict) :
            IF HasRowsOn(hourly_dict[s].df)
            THEN /\ hourly_dict[s].name \notin warnings
                 /\ Cardinality(ColumnsOf(hourly_dict[s].name)) = 1
            ELSE /\ hourly_dict[s].name \in warnings
                 /\ ColumnsOf(hourly_dict[s].name) = {}

\* C8: the hard stop is shown (and then no chart or table) if and only if
\* no source has a row on the chosen date.
C8_HardStopIffNoSource ==
    CompareEnded =>
        ((shown = "error") <=>
            \A s \in 1..Len(hourly_dict) : ~HasRowsOn(hourly_dict[s].df))

\* the date picked lies inside the range of the union of dates
C8_Witness ==
    /\ pc = "done"
    /\ shown = "error"
    /\ SetMin(all_dates) < date_choice[1]
    /\ date_choice[1] < SetMax(all_dates)
    /\ Len(hourly_dict) = 2
    /\ warnings = {"a.csv", "b.csv"}

\* no row of the file passes the mask of parse_hourly
NoRowMatches(f) == Masked(ReadCsv(f)) = <<>>

C10_WindowRangeValid ==
    (MODE = Window100 /\ HasDaily /\ daily # <<>>) =>
        /\ min_day <= max_day
        /\ error # DateInputError
        /\ start_day # NaN =>
              /\ min_day <= start_day[1]
              /\ end_day(start_day[1]) <= daily[Len(daily)].date

====
